---- MODULE Spec2Model ----
(***************************************************************************)
(* A/B experiment analysis: the per-metric statistics (analysis/utils.py), *)
(* the per-metric policy and the report (ExperimentAnalyzer.analyze_metric *)
(* and analyze_all_metrics) and the ship decision                          *)
(* (ExperimentAnalyzer.make_ship_decision, save_results).                  *)
(*                                                                         *)
(* Numbers.  A float is a record [n, d]: the rational n/d when d > 0, and  *)
(* a non-finite float when d = 0 (n = 0 is NaN, n = 1 is +inf, n = -1 is   *)
(* -inf).  Comparisons and arithmetic are exact (cross multiplication) and *)
(* follow the IEEE rules for NaN: every ordered comparison with NaN is     *)
(* false and NaN != x is true.                                             *)
(***************************************************************************)
EXTENDS Integers, Sequences, FiniteSets, TLC

VARIABLES
    df,          \* the data snapshot: column -> [control, variant, p]
    results,     \* ExperimentAnalyzer.results: an insertion-ordered dict
    decision,    \* the dict the last make_ship_decision call returned
    saved,       \* the document the last save_results call wrote
    guardrail_metrics, \* the configured guardrail list (config.GUARDRAIL_METRICS)
    raised,      \* the exception the last call on the analyzer propagated ("" if none)
    args,        \* arguments of the function under test (function-level specifications)
    ret          \* its return value

vars == <<df, results, decision, saved, guardrail_metrics, raised, args, ret>>

----------------------------------------------------------------------------
(* Bounds of the function-level specifications. *)

MaxLen == 2   \* longest sample drawn for perform_ttest
MaxVal == 1   \* observations drawn for perform_ttest lie in -MaxVal..MaxVal
MaxGuardrails == 3   \* longest configured guardrail list
MaxTicks == 60   \* values formatted lie within MaxTicks steps of 0.00005 from zero

----------------------------------------------------------------------------
(* Floats *)

Rat(a, b) == [n |-> a, d |-> b]
Zero == Rat(0, 1)
NaN == Rat(0, 0)

IsNaN(x) == x.d = 0 /\ x.n = 0
IsFinite(x) == x.d > 0

AbsInt(i) == IF i < 0 THEN -i ELSE i
SgnInt(i) == IF i < 0 THEN -1 ELSE IF i > 0 THEN 1 ELSE 0

\* a < b on floats
Lt(a, b) ==
    /\ ~IsNaN(a)
    /\ ~IsNaN(b)
    /\ IF a.d = 0 /\ b.d = 0 THEN a.n < b.n
       ELSE IF a.d = 0 THEN a.n < 0
       ELSE IF b.d = 0 THEN b.n > 0
       ELSE a.n * b.d < b.n * a.d

\* a > b, a >= b, a != b on floats
Gt(a, b) == Lt(b, a)
Ge(a, b) ==
    /\ ~IsNaN(a)
    /\ ~IsNaN(b)
    /\ ~Lt(a, b)
Ne(a, b) ==
    \/ IsNaN(a)
    \/ IsNaN(b)
    \/ IF a.d = 0 \/ b.d = 0 THEN a # b ELSE a.n * b.d # b.n * a.d

\* abs(a), -a, a - b, a / b on floats (numpy: a division by zero yields inf or nan)
Abs(a) == Rat(AbsInt(a.n), a.d)
Neg(a) == Rat(-a.n, a.d)
Sub(a, b) ==
    IF IsNaN(a) \/ IsNaN(b) THEN NaN
    ELSE IF a.d = 0 /\ b.d = 0 THEN (IF a.n = b.n THEN NaN ELSE a)
    ELSE IF a.d = 0 THEN a
    ELSE IF b.d = 0 THEN Neg(b)
    ELSE Rat(a.n * b.d - b.n * a.d, a.d * b.d)
Div(a, b) ==
    IF IsNaN(a) \/ IsNaN(b) THEN NaN
    ELSE IF a.d = 0 /\ b.d = 0 THEN NaN
    ELSE IF a.d = 0 THEN Rat(a.n * (IF b.n < 0 THEN -1 ELSE 1), 0)
    ELSE IF b.d = 0 THEN Zero
    ELSE IF b.n = 0 THEN Rat(SgnInt(a.n), 0)
    ELSE Rat(a.n * b.d * SgnInt(b.n), a.d * AbsInt(b.n))

----------------------------------------------------------------------------
(* analysis/config.py *)

SIGNIFICANCE_LEVEL == Rat(5, 100)
GUARDRAIL_SIGNIFICANCE == Rat(10, 100)
MIN_EFFECT_SIZE == Rat(2, 100)
MAX_GUARDRAIL_DEGRADATION == Rat(1, 100)
PRIMARY_METRIC == "avg_session_duration"
GUARDRAIL_METRICS == <<"skip_rate", "sessions_per_user", "retention_d1">>

----------------------------------------------------------------------------
(* analysis/utils.py *)

RECURSIVE SumSeq(_)
SumSeq(s) == IF s = <<>> THEN 0 ELSE Head(s) + SumSeq(Tail(s))

RECURSIVE SumSq(_)
SumSq(s) == IF s = <<>> THEN 0 ELSE Head(s) * Head(s) + SumSq(Tail(s))

\* np.mean: NaN for an empty array
Mean(s) == IF Len(s) = 0 THEN NaN ELSE Rat(SumSeq(s), Len(s))

\* (n - 1) * np.var(s, ddof=1), the sum of squared deviations: NaN below 2 observations
SumSqDev(s) ==
    IF Len(s) < 2 THEN NaN
    ELSE Rat(Len(s) * SumSq(s) - SumSeq(s) * SumSeq(s), Len(s))

\* The pooled variance, pooled_std squared
PooledVar(group1, group2) ==
    LET ss1 == SumSqDev(group1)
        ss2 == SumSqDev(group2)
    IN  IF IsNaN(ss1) \/ IsNaN(ss2) THEN NaN
        ELSE Div(Rat(ss1.n * ss2.d + ss2.n * ss1.d, ss1.d * ss2.d),
                 Rat(Len(group1) + Len(group2) - 2, 1))

\* x / sqrt(v), kept as its sign and its square
OverSqrt(x, v) ==
    IF IsNaN(x) \/ IsNaN(v) THEN [sign |-> 0, sq |-> NaN]
    ELSE [sign |-> SgnInt(x.n), sq |-> Div(Rat(x.n * x.n, x.d * x.d), v)]

CohensDControlMinusVariant(group1, group2) ==
    OverSqrt(Sub(Mean(group1), Mean(group2)), PooledVar(group1, group2))

calculate_cohens_d(group1, group2) ==
    OverSqrt(Sub(Mean(group2), Mean(group1)), PooledVar(group1, group2))

\* stats.ttest_ind(a, b): the pooled-variance statistic of a minus b, and its
\* two-tailed p-value.  The Student t distribution is SciPy's: p stands for the
\* p-value it returns for a finite non-zero statistic; a statistic of zero
\* has p-value 1.
ttest_ind(a, b, p) ==
    LET \* the statistic for the pooled variance v: the difference of the
        \* means over sqrt(v * (1/n1 + 1/n2))
        Statistic(v) ==
            OverSqrt(Sub(Mean(a), Mean(b)),
                     IF IsNaN(v) THEN NaN
                     ELSE Rat(v.n * (Len(a) + Len(b)), v.d * Len(a) * Len(b)))
        Outcome(t) ==
            [t_statistic |-> t,
             p_value |-> IF IsNaN(t.sq) THEN NaN
                         ELSE IF ~IsFinite(t.sq) THEN Zero
                         ELSE IF t.sq.n = 0 THEN Rat(1, 1)
                         ELSE p]
    IN  CHOOSE r \in {Outcome(t) : t \in {Statistic(v) : v \in {PooledVar(b, a)}}} : TRUE

RelativeLiftControlMinusVariant(control_mean, variant_mean) ==
    IF Ne(control_mean, Zero)
    THEN Div(Sub(control_mean, variant_mean), control_mean)
    ELSE Zero

RelativeLiftUnguarded(control_mean, variant_mean) ==
    Div(Sub(variant_mean, control_mean), control_mean)

RelativeLift(control_mean, variant_mean) ==
    IF Ne(control_mean, Zero)
    THEN Div(Sub(variant_mean, control_mean), control_mean)
    ELSE Zero

perform_ttest(control, variant, p) ==
    LET tt == ttest_ind(variant, control, p)
        control_mean == Mean(control)
        variant_mean == Mean(variant)
    IN  [control_mean |-> control_mean,
         variant_mean |-> variant_mean,
         t_statistic |-> tt.t_statistic,
         p_value |-> tt.p_value,
         cohens_d |-> calculate_cohens_d(control, variant),
         relative_lift |-> RelativeLift(control_mean, variant_mean),
         sample_size_control |-> Len(control),
         sample_size_variant |-> Len(variant)]

\* f"{x:.<digits>f}" with scale = 10^digits: the float rounded half-even to that
\* many decimals, kept as its sign and its count of units of 1/scale
RoundHalfEven(n, d) ==
    LET q == n \div d
        r == n % d
    IN  IF 2 * r > d THEN q + 1
        ELSE IF 2 * r = d THEN (IF q % 2 = 0 THEN q ELSE q + 1)
        ELSE q

FixedStr(x, scale) ==
    IF IsNaN(x) THEN [kind |-> "nan", neg |-> FALSE, units |-> 0]
    ELSE IF ~IsFinite(x) THEN [kind |-> "inf", neg |-> x.n < 0, units |-> 0]
    ELSE [kind |-> "fixed", neg |-> x.n < 0,
          units |-> RoundHalfEven(AbsInt(x.n) * scale, x.d)]

\* The bound 0.001 itself shown as "< 0.001"
FormatPValueInclusive(p_value) ==
    IF ~Gt(p_value, Rat(1, 1000)) /\ ~IsNaN(p_value)
    THEN [kind |-> "< 0.001", neg |-> FALSE, units |-> 0]
    ELSE FixedStr(p_value, 1000)

format_p_value(p_value) ==
    IF Lt(p_value, Rat(1, 1000))
    THEN [kind |-> "< 0.001", neg |-> FALSE, units |-> 0]
    ELSE FixedStr(p_value, 1000)

\* f"{relative_lift*100:.2f}"
FormatPct(relative_lift) ==
    FixedStr(Rat(relative_lift.n * 100, relative_lift.d), 100)

\* abs_d < 0.2, < 0.5, < 0.8 on the square of cohens_d
interpret_effect_size(cohens_d) ==
    IF Lt(cohens_d.sq, Rat(4, 100)) THEN "negligible"
    ELSE IF Lt(cohens_d.sq, Rat(25, 100)) THEN "small"
    ELSE IF Lt(cohens_d.sq, Rat(64, 100)) THEN "medium"
    ELSE "large"

----------------------------------------------------------------------------
(* Python dicts keep insertion order: a dict is a sequence of [key, value]  *)
(* with distinct keys; d[k] = v replaces the value of a present key in      *)
(* place and appends an absent one.                                         *)

EmptyDict == <<>>
DictKeys(d) == [i \in 1..Len(d) |-> d[i].key]
DictHas(d, k) == \E i \in 1..Len(d) : d[i].key = k
DictGet(d, k) == d[CHOOSE i \in 1..Len(d) : d[i].key = k].value
\* A new key put before the keys the dict already holds
DictSetFront(d, k, v) ==
    IF DictHas(d, k)
    THEN [i \in 1..Len(d) |-> IF d[i].key = k THEN [key |-> k, value |-> v] ELSE d[i]]
    ELSE <<[key |-> k, value |-> v]>> \o d

DictSet(d, k, v) ==
    IF DictHas(d, k)
    THEN [i \in 1..Len(d) |-> IF d[i].key = k THEN [key |-> k, value |-> v] ELSE d[i]]
    ELSE Append(d, [key |-> k, value |-> v])

----------------------------------------------------------------------------
(* ExperimentAnalyzer                                                       *)

DegradationAnyRole(is_primary, metric_name, relative_lift, is_significant) ==
    IF metric_name = "avg_skip_rate"
    THEN Gt(relative_lift, MAX_GUARDRAIL_DEGRADATION) /\ is_significant
    ELSE Lt(relative_lift, Neg(MAX_GUARDRAIL_DEGRADATION)) /\ is_significant

\* is_degraded: upward for the skip-rate column, downward for every other
\* column, False for the primary
Degradation(is_primary, metric_name, relative_lift, is_significant) ==
    IF ~is_primary
    THEN IF metric_name = "avg_skip_rate"
         THEN Gt(relative_lift, MAX_GUARDRAIL_DEGRADATION) /\ is_significant
         ELSE Lt(relative_lift, Neg(MAX_GUARDRAIL_DEGRADATION)) /\ is_significant
    ELSE FALSE

SigLevelAlwaysPrimary(is_primary) == SIGNIFICANCE_LEVEL

SigLevel(is_primary) ==
    IF is_primary THEN SIGNIFICANCE_LEVEL ELSE GUARDRAIL_SIGNIFICANCE

MeetsThresholdSigned(relative_lift) == Ge(relative_lift, MIN_EFFECT_SIZE)

MeetsThreshold(relative_lift) == Ge(Abs(relative_lift), MIN_EFFECT_SIZE)

\* analyze_metric(df, metric_name, is_primary).  The snapshot d holds, for each
\* column, the control and variant_b observations with missing values dropped
\* (retention_d1 as 0/1 numbers).
analyze_metric(d, metric_name, is_primary) ==
    LET test_results == perform_ttest(d[metric_name].control,
                                      d[metric_name].variant,
                                      d[metric_name].p)
        is_significant == Lt(test_results.p_value, SigLevel(is_primary))
        meets_threshold == MeetsThreshold(test_results.relative_lift)
        is_degraded == Degradation(is_primary, metric_name,
                                   test_results.relative_lift, is_significant)
    IN  [metric_name |-> metric_name,
         is_primary |-> is_primary,
         is_significant |-> is_significant,
         meets_threshold |-> meets_threshold,
         is_degraded |-> is_degraded,
         control_mean |-> test_results.control_mean,
         variant_mean |-> test_results.variant_mean,
         t_statistic |-> test_results.t_statistic,
         p_value |-> test_results.p_value,
         cohens_d |-> test_results.cohens_d,
         relative_lift |-> test_results.relative_lift,
         sample_size_control |-> test_results.sample_size_control,
         sample_size_variant |-> test_results.sample_size_variant]

\* The column a configured guardrail name is read from
MetricCol(metric) ==
    IF metric = "skip_rate" THEN "avg_skip_rate"
    ELSE IF metric = "retention_d1" THEN "retention_d1"
    ELSE IF metric = "sessions_per_user" THEN "sessions_per_user"
    ELSE metric

\* The guardrail loop of analyze_all_metrics
RECURSIVE AnalyzeGuardrails(_, _, _)
AnalyzeGuardrails(d, metrics, res) ==
    IF metrics = <<>> THEN res
    ELSE AnalyzeGuardrails(d, Tail(metrics),
            DictSet(res, Head(metrics),
                    analyze_metric(d, MetricCol(Head(metrics)), FALSE)))

analyze_all_metrics(d, guardrails) ==
    AnalyzeGuardrails(d, guardrails,
        DictSet(EmptyDict, PRIMARY_METRIC, analyze_metric(d, PRIMARY_METRIC, TRUE)))

\* df[...][metric_name] raises KeyError for a column the snapshot does not have
ColumnMissing(d, metric_col) == metric_col \notin DOMAIN d

\* The first guardrail whose analysis raises (0 when none does)
FirstFailing(d, guardrails) ==
    IF \E i \in 1..Len(guardrails) : ColumnMissing(d, MetricCol(guardrails[i]))
    THEN CHOOSE i \in 1..Len(guardrails) :
            /\ ColumnMissing(d, MetricCol(guardrails[i]))
            /\ \A j \in 1..(i - 1) : ~ColumnMissing(d, MetricCol(guardrails[j]))
    ELSE 0

\* analyze_all_metrics raises: the primary's or a guardrail's column is missing
AnalysisRaises(d, guardrails) ==
    ColumnMissing(d, PRIMARY_METRIC) \/ FirstFailing(d, guardrails) # 0

\* self.results filled as the loop goes, so that a failure leaves what was
\* analysed before it
StoredAfterAnalysisPartial(res, d, guardrails) ==
    IF ColumnMissing(d, PRIMARY_METRIC) THEN EmptyDict
    ELSE IF FirstFailing(d, guardrails) # 0
    THEN analyze_all_metrics(d, SubSeq(guardrails, 1, FirstFailing(d, guardrails) - 1))
    ELSE analyze_all_metrics(d, guardrails)

\* self.results after a call of analyze_all_metrics: the report is a local
\* until `self.results = results`, which a raise never reaches
StoredAfterAnalysis(res, d, guardrails) ==
    IF AnalysisRaises(d, guardrails) THEN res
    ELSE analyze_all_metrics(d, guardrails)

\* [metric for metric, result in results.items()
\*         if not result['is_primary'] and result['is_degraded']]
\* Only the first degraded guardrail
RECURSIVE DegradedGuardrailsFirst(_)
DegradedGuardrailsFirst(res) ==
    IF res = <<>> THEN <<>>
    ELSE IF ~Head(res).value.is_primary /\ Head(res).value.is_degraded
         THEN <<Head(res).key>>
         ELSE DegradedGuardrailsFirst(Tail(res))

\* Every significant guardrail, degraded or not
RECURSIVE DegradedGuardrailsSignificant(_)
DegradedGuardrailsSignificant(res) ==
    IF res = <<>> THEN <<>>
    ELSE IF ~Head(res).value.is_primary /\ Head(res).value.is_significant
         THEN <<Head(res).key>> \o DegradedGuardrailsSignificant(Tail(res))
         ELSE DegradedGuardrailsSignificant(Tail(res))

RECURSIVE DegradedGuardrails(_)
DegradedGuardrails(res) ==
    IF res = <<>> THEN <<>>
    ELSE IF ~Head(res).value.is_primary /\ Head(res).value.is_degraded
         THEN <<Head(res).key>> \o DegradedGuardrails(Tail(res))
         ELSE DegradedGuardrails(Tail(res))

PrimarySuccessAnyLift(primary) ==
    /\ primary.is_significant
    /\ primary.meets_threshold

PrimarySuccessNoThreshold(primary) ==
    /\ primary.is_significant
    /\ Gt(primary.relative_lift, Zero)

PrimarySuccess(primary) ==
    /\ primary.is_significant
    /\ primary.meets_threshold
    /\ Gt(primary.relative_lift, Zero)

\* One reasoning string: its fixed text and the values formatted into it
NoStr == [kind |-> "", neg |-> FALSE, units |-> 0]
NoEffect == [label |-> "", d |-> [sign |-> 0, sq |-> NaN]]
Reason(text, lift, p, effect, ids) ==
    [text |-> text, lift |-> lift, p_value |-> p, effect |-> effect, guardrails |-> ids]

PathCondThreshold(path, primary, degraded_guardrails) ==
    CASE path = 1 -> PrimarySuccess(primary) /\ degraded_guardrails = <<>>
      [] path = 2 -> PrimarySuccess(primary) /\ degraded_guardrails # <<>>
      [] path = 3 -> /\ primary.is_significant
                     /\ primary.meets_threshold
                     /\ Lt(primary.relative_lift, Zero)
      [] OTHER -> TRUE

\* The conditions of the if / elif chain of make_ship_decision, as written
PathCond(path, primary, degraded_guardrails) ==
    CASE path = 1 -> PrimarySuccess(primary) /\ degraded_guardrails = <<>>
      [] path = 2 -> PrimarySuccess(primary) /\ degraded_guardrails # <<>>
      [] path = 3 -> primary.is_significant /\ Lt(primary.relative_lift, Zero)
      [] OTHER -> TRUE

ThresholdNoteWhenMet(primary) ==
    IF primary.meets_threshold
    THEN <<Reason("Lift does not meet minimum threshold of 2.0%",
                  NoStr, NoStr, NoEffect, <<>>)>>
    ELSE <<>>

\* The note the else branch appends to its reasoning
ThresholdNote(primary) ==
    IF ~primary.meets_threshold
    THEN <<Reason("Lift does not meet minimum threshold of 2.0%",
                  NoStr, NoStr, NoEffect, <<>>)>>
    ELSE <<>>

\* The branch bodies: decision, confidence and reasoning
PathBody(path, primary, degraded_guardrails) ==
    CASE path = 1 ->
           [decision |-> "SHIP", confidence |-> "HIGH",
            reasoning |-> <<
              Reason("Primary metric (avg_session_duration) shows significant positive lift of {lift}%",
                     FormatPct(primary.relative_lift), NoStr, NoEffect, <<>>),
              Reason("Statistical significance achieved (p = {p})",
                     NoStr, format_p_value(primary.p_value), NoEffect, <<>>),
              Reason("Effect size is {label} (Cohen's d = {d})", NoStr, NoStr,
                     [label |-> interpret_effect_size(primary.cohens_d),
                      d |-> primary.cohens_d], <<>>),
              Reason("No guardrail metrics degraded", NoStr, NoStr, NoEffect, <<>>) >>]
      [] path = 2 ->
           [decision |-> "DON'T SHIP", confidence |-> "MEDIUM",
            reasoning |-> <<
              Reason("Primary metric shows positive lift of {lift}%",
                     FormatPct(primary.relative_lift), NoStr, NoEffect, <<>>),
              Reason("BUT guardrail metric(s) degraded: {guardrails}",
                     NoStr, NoStr, NoEffect, degraded_guardrails),
              Reason("Risk of harming user experience outweighs primary metric gains",
                     NoStr, NoStr, NoEffect, <<>>) >>]
      [] path = 3 ->
           [decision |-> "DON'T SHIP", confidence |-> "HIGH",
            reasoning |-> <<
              Reason("Primary metric shows NEGATIVE lift of {lift}%",
                     FormatPct(primary.relative_lift), NoStr, NoEffect, <<>>),
              Reason("Variant is worse than control", NoStr, NoStr, NoEffect, <<>>) >>]
      [] OTHER ->
           [decision |-> "DON'T SHIP", confidence |-> "MEDIUM",
            reasoning |->
              << Reason("Primary metric lift ({lift}%) is not statistically significant",
                        FormatPct(primary.relative_lift), NoStr, NoEffect, <<>>),
                 Reason("p-value = {p} (threshold: 0.05)",
                        NoStr, format_p_value(primary.p_value), NoEffect, <<>>),
                 Reason("Insufficient evidence to conclude variant is better",
                        NoStr, NoStr, NoEffect, <<>>) >>
              \o ThresholdNote(primary)]

\* The chain tested in the given order of its three conditions; the else branch
\* is path 4
RECURSIVE FirstMatch(_, _, _)
FirstMatch(order, primary, degraded_guardrails) ==
    IF order = <<>> THEN 4
    ELSE IF PathCond(Head(order), primary, degraded_guardrails) THEN Head(order)
    ELSE FirstMatch(Tail(order), primary, degraded_guardrails)

DecideInOrder(order, res) ==
    LET primary == DictGet(res, PRIMARY_METRIC)
        degraded_guardrails == DegradedGuardrails(res)
        body == PathBody(FirstMatch(order, primary, degraded_guardrails),
                         primary, degraded_guardrails)
    IN  [decision |-> body.decision,
         confidence |-> body.confidence,
         reasoning |-> body.reasoning,
         primary_metric_lift |-> primary.relative_lift,
         primary_metric_pvalue |-> primary.p_value,
         degraded_guardrails |-> degraded_guardrails]

\* The decision make_ship_decision derives from a non-empty report
Decide(res) == DecideInOrder(<<1, 2, 3>>, res)

\* self.results once make_ship_decision has passed its first statement
ResultsForDecision(res, d, guardrails) ==
    IF res = EmptyDict THEN StoredAfterAnalysis(res, d, guardrails) ELSE res

\* make_ship_decision raises: its own call of analyze_all_metrics does
DecisionRaises(res, d, guardrails) ==
    res = EmptyDict /\ AnalysisRaises(d, guardrails)

----------------------------------------------------------------------------
(* The analyzer: ExperimentAnalyzer(EXPERIMENT_ID) and the calls on it      *)

NoDecision == [decision |-> "", confidence |-> "", reasoning |-> <<>>,
               primary_metric_lift |-> NaN, primary_metric_pvalue |-> NaN,
               degraded_guardrails |-> <<>>]
NoDocument == [written |-> FALSE, metrics |-> EmptyDict, decision |-> NoDecision]
NoArgs == [fn |-> ""]
NoRet == [fn |-> "", value |-> <<>>]

\* Observations of the analyzer's snapshot: a group with the given mean.  The
\* primary column takes every lift class the decision tells apart (-2%, -1%,
\* none, +1%, +2%); a guardrail column takes a lift beyond the tolerance in
\* either direction.
Sample(mean) == <<mean - 1, mean + 1>>
Columns == {"avg_session_duration", "avg_skip_rate", "sessions_per_user", "retention_d1"}
PrimaryRows == [control : {Sample(100)},
                variant : {Sample(m) : m \in {98, 99, 100, 101, 102}},
                p : {Rat(4, 100), Rat(7, 100)}]
GuardrailRows == [control : {Sample(100)},
                  variant : {Sample(m) : m \in {98, 102}},
                  p : {Rat(7, 100), Rat(10, 100)}]

Init ==
    /\ \E prim \in PrimaryRows, g \in [Columns \ {PRIMARY_METRIC} -> GuardrailRows] :
          df = [c \in Columns |-> IF c = PRIMARY_METRIC THEN prim ELSE g[c]]
    /\ results = EmptyDict
    /\ decision = NoDecision
    /\ saved = NoDocument
    /\ guardrail_metrics = GUARDRAIL_METRICS
    /\ raised = ""
    /\ args = NoArgs
    /\ ret = NoRet

AnalyzeAllMetrics ==
    /\ results' = StoredAfterAnalysis(results, df, guardrail_metrics)
    /\ raised' = IF AnalysisRaises(df, guardrail_metrics) THEN "KeyError" ELSE ""
    /\ UNCHANGED <<df, decision, saved, guardrail_metrics, args, ret>>

MakeShipDecision ==
    /\ results' = ResultsForDecision(results, df, guardrail_metrics)
    /\ IF DecisionRaises(results, df, guardrail_metrics)
       THEN /\ raised' = "KeyError"
            /\ decision' = decision
       ELSE /\ raised' = ""
            /\ decision' = Decide(results')
    /\ UNCHANGED <<df, saved, guardrail_metrics, args, ret>>

\* 'metrics': self.results is evaluated before make_ship_decision is called;
\* nothing is written when make_ship_decision raises
SaveResults ==
    /\ results' = ResultsForDecision(results, df, guardrail_metrics)
    /\ IF DecisionRaises(results, df, guardrail_metrics)
       THEN /\ raised' = "KeyError"
            /\ decision' = decision
            /\ saved' = saved
       ELSE /\ raised' = ""
            /\ decision' = Decide(results')
            /\ saved' = [written |-> TRUE, metrics |-> results, decision |-> decision']
    /\ UNCHANGED <<df, guardrail_metrics, args, ret>>

Next ==
    \/ AnalyzeAllMetrics
    \/ MakeShipDecision
    \/ SaveResults

Spec == Init /\ [][Next]_vars

----------------------------------------------------------------------------
(* analyze_metric on its own: one column of a snapshot, analysed in either  *)
(* role.  higher_is_worse is the direction the configuration states for     *)
(* the metric (the skip rate is higher-is-worse; another guardrail may be   *)
(* either); analyze_metric has no such parameter and does not read it.      *)

MetricControlMeans == {-100, 0, 100}
MetricVariantMeans == {-102, -101, -100, -99, -98, 0, 98, 99, 100, 101, 102}
MetricPValues == {Rat(4, 100), Rat(5, 100), Rat(7, 100), Rat(10, 100)}
MetricRows == [control : {Sample(m) : m \in MetricControlMeans},
               variant : {Sample(m) : m \in MetricVariantMeans},
               p : MetricPValues]

InitMetric ==
    /\ \E name \in Columns, row \in MetricRows, prim \in BOOLEAN, hiw \in BOOLEAN :
          /\ name = "avg_skip_rate" => hiw
          /\ df = [c \in {name} |-> row]
          /\ args = [fn |-> "analyze_metric", metric_name |-> name,
                     is_primary |-> prim, higher_is_worse |-> hiw]
    /\ results = EmptyDict
    /\ decision = NoDecision
    /\ saved = NoDocument
    /\ guardrail_metrics = GUARDRAIL_METRICS
    /\ raised = ""
    /\ ret = NoRet

CallAnalyzeMetric ==
    /\ args.fn = "analyze_metric"
    /\ ret.fn = ""
    /\ ret' = [fn |-> "analyze_metric",
               value |-> analyze_metric(df, args.metric_name, args.is_primary)]
    /\ UNCHANGED <<df, results, decision, saved, guardrail_metrics, raised, args>>

NextMetric == CallAnalyzeMetric

SpecMetric == InitMetric /\ [][NextMetric]_vars

----------------------------------------------------------------------------
(* perform_ttest on its own: every pair of samples of at most MaxLen        *)
(* observations in -MaxVal..MaxVal                                          *)

Samples == UNION {[1..k -> (-MaxVal)..MaxVal] : k \in 0..MaxLen}
TtestPValues == {Rat(4, 100), Rat(10, 100)}

InitTtest ==
    /\ \E control \in Samples, variant \in Samples, p \in TtestPValues :
          args = [fn |-> "perform_ttest", control |-> control,
                  variant |-> variant, p |-> p]
    /\ df = <<>>
    /\ results = EmptyDict
    /\ decision = NoDecision
    /\ saved = NoDocument
    /\ guardrail_metrics = GUARDRAIL_METRICS
    /\ raised = ""
    /\ ret = NoRet

CallPerformTtest ==
    /\ args.fn = "perform_ttest"
    /\ ret.fn = ""
    /\ ret' = [fn |-> "perform_ttest",
               value |-> perform_ttest(args.control, args.variant, args.p)]
    /\ UNCHANGED <<df, results, decision, saved, guardrail_metrics, raised, args>>

NextTtest == CallPerformTtest

SpecTtest == InitTtest /\ [][NextTtest]_vars

----------------------------------------------------------------------------
(* The analyzer on snapshots with degenerate samples (specification         *)
(* SpecShort): one column of the snapshot holds a group with no or a single *)
(* observation, or groups without variance                                  *)

ShortControls == {<<>>, <<100>>, <<100, 100>>, Sample(100)}
ShortVariants == {<<102>>, <<102, 102>>, <<100, 100>>, Sample(102)}
ShortPrimaryRows == {r \in PrimaryRows : r.variant \in {Sample(100), Sample(102)}}

InitShort ==
    /\ \E c \in Columns, ctl \in ShortControls, var \in ShortVariants,
          prim \in ShortPrimaryRows, g \in GuardrailRows :
          df = [k \in Columns |->
                   IF k = c THEN [control |-> ctl, variant |-> var, p |-> Rat(4, 100)]
                   ELSE IF k = PRIMARY_METRIC THEN prim ELSE g]
    /\ results = EmptyDict
    /\ decision = NoDecision
    /\ saved = NoDocument
    /\ guardrail_metrics = GUARDRAIL_METRICS
    /\ raised = ""
    /\ args = NoArgs
    /\ ret = NoRet

SpecShort == InitShort /\ [][Next]_vars

----------------------------------------------------------------------------
(* The analyzer under every guardrail configuration (specification          *)
(* SpecConfig): GUARDRAIL_METRICS is any list of at most MaxGuardrails      *)
(* names, among them the primary's id, repeated names and a name the        *)
(* snapshot has no column for                                               *)

ConfigNames == {"skip_rate", "sessions_per_user", "retention_d1",
                "avg_session_duration", "churn_rate"}
ConfigLists == UNION {[1..k -> ConfigNames] : k \in 0..MaxGuardrails}
ConfigPrimaryRows ==
    {r \in PrimaryRows : r.variant \in {Sample(100), Sample(102)} /\ r.p = Rat(4, 100)}
ConfigGuardrailRows == {r \in GuardrailRows : r.p = Rat(7, 100)}
ConfigSnapshots ==
    {[c \in Columns |-> IF c = PRIMARY_METRIC THEN prim ELSE g] :
        prim \in ConfigPrimaryRows, g \in ConfigGuardrailRows}

InitConfig ==
    /\ df \in ConfigSnapshots
    /\ results = EmptyDict
    /\ decision = NoDecision
    /\ saved = NoDocument
    /\ guardrail_metrics \in ConfigLists
    /\ raised = ""
    /\ args = NoArgs
    /\ ret = NoRet

SpecConfig == InitConfig /\ [][Next]_vars

----------------------------------------------------------------------------
(* The per-metric evaluations of one report taken in any order              *)
(* (specification SpecOrder): each step is one call of analyze_metric for a *)
(* configured metric not evaluated yet; ret.value collects what the calls   *)
(* returned, by metric id                                                   *)

OrderSnapshots ==
    {[c \in Columns |-> IF c = PRIMARY_METRIC THEN prim ELSE g] :
        prim \in ConfigPrimaryRows, g \in GuardrailRows}

InitOrder ==
    /\ df \in OrderSnapshots
    /\ results = EmptyDict
    /\ decision = NoDecision
    /\ saved = NoDocument
    /\ guardrail_metrics = GUARDRAIL_METRICS
    /\ raised = ""
    /\ args = NoArgs
    /\ ret = [fn |-> "analyze_metric", value |-> EmptyDict]

\* The role is taken from the call's position: the first call made is the
\* primary's
EvaluateMetricFirstIsPrimary ==
    \E m \in {PRIMARY_METRIC} \cup {guardrail_metrics[i] : i \in 1..Len(guardrail_metrics)} :
        /\ ~DictHas(ret.value, m)
        /\ ret' = [ret EXCEPT !.value =
                      DictSet(ret.value, m,
                              analyze_metric(df, MetricCol(m), ret.value = EmptyDict))]
        /\ UNCHANGED <<df, results, decision, saved, guardrail_metrics, raised, args>>

EvaluateMetric ==
    \E m \in {PRIMARY_METRIC} \cup {guardrail_metrics[i] : i \in 1..Len(guardrail_metrics)} :
        /\ ~DictHas(ret.value, m)
        /\ ret' = [ret EXCEPT !.value =
                      DictSet(ret.value, m,
                              analyze_metric(df, MetricCol(m), m = PRIMARY_METRIC))]
        /\ UNCHANGED <<df, results, decision, saved, guardrail_metrics, raised, args>>

NextOrder == EvaluateMetric

SpecOrder == InitOrder /\ [][NextOrder]_vars

----------------------------------------------------------------------------
(* The formatting of p-values and of lift percentages on its own            *)
(* (specification SpecFormat): every value on a grid of half a thousandth   *)
(* of a percent, p-values from zero upwards and lifts of either sign        *)

InitFormat ==
    /\ \E fn \in {"format_p_value", "format_lift"}, n \in (-MaxTicks)..MaxTicks :
          /\ fn = "format_p_value" => n >= 0
          /\ args = [fn |-> fn, x |-> Rat(n, 20000)]
    /\ df = <<>>
    /\ results = EmptyDict
    /\ decision = NoDecision
    /\ saved = NoDocument
    /\ guardrail_metrics = GUARDRAIL_METRICS
    /\ raised = ""
    /\ ret = NoRet

CallFormatPValue ==
    /\ args.fn = "format_p_value"
    /\ ret.fn = ""
    /\ ret' = [fn |-> "format_p_value", value |-> format_p_value(args.x)]
    /\ UNCHANGED <<df, results, decision, saved, guardrail_metrics, raised, args>>

\* f"{primary['relative_lift']*100:.2f}" of the reasoning strings
CallFormatLift ==
    /\ args.fn = "format_lift"
    /\ ret.fn = ""
    /\ ret' = [fn |-> "format_lift", value |-> FormatPct(args.x)]
    /\ UNCHANGED <<df, results, decision, saved, guardrail_metrics, raised, args>>

NextFormat ==
    \/ CallFormatPValue
    \/ CallFormatLift

SpecFormat == InitFormat /\ [][NextFormat]_vars

----------------------------------------------------------------------------
(* The analyzer on the snapshot of scenario A (specification SpecScenario): *)
(* the primary column holds the scenario's two samples, with the p-value    *)
(* SciPy's ttest_ind returns for them (t = 4.1603 on 8 degrees of freedom,  *)
(* p = 0.003164); the guardrail columns take every guardrail row            *)

ScenarioRow == [control |-> <<10, 12, 11, 13, 12>>,
                variant |-> <<14, 15, 13, 16, 15>>,
                p |-> Rat(3164, 1000000)]

InitScenario ==
    /\ \E g \in [Columns \ {PRIMARY_METRIC} -> GuardrailRows] :
          df = [c \in Columns |-> IF c = PRIMARY_METRIC THEN ScenarioRow ELSE g[c]]
    /\ results = EmptyDict
    /\ decision = NoDecision
    /\ saved = NoDocument
    /\ guardrail_metrics = GUARDRAIL_METRICS
    /\ raised = ""
    /\ args = NoArgs
    /\ ret = NoRet

SpecScenario == InitScenario /\ [][Next]_vars

----------------------------------------------------------------------------
(* The dashboard reading the saved document (specification SpecDashboard):  *)
(* the analyzer runs as in Spec, and the overview page and the decision     *)
(* page render the decision of the document when one has been written;     *)
(* ret holds the style the page rendered the verdict with                   *)

\* `sub in s` for the verdict strings make_ship_decision emits and the
\* substrings the pages test for; "U+2705" and "U+274C" stand for the check
\* mark and the cross mark, which no emitted verdict holds
HasSubstring(s, sub) ==
    <<s, sub>> \in {<<"SHIP", "SHIP">>,
                    <<"DON'T SHIP", "SHIP">>,
                    <<"DON'T SHIP", "DON'T SHIP">>}

\* The decision preview of the overview page: st.success / st.error /
\* st.warning
show_overview_page(d) ==
    IF HasSubstring(d.decision, "SHIP") /\ HasSubstring(d.decision, "U+2705")
    THEN "success"
    ELSE IF HasSubstring(d.decision, "U+274C") THEN "error"
    ELSE "warning"

\* The decision box of the decision page: the green (success), red (error)
\* or yellow (warning) colours
display_ship_decision(d) ==
    IF d.decision = "SHIP" THEN "success"
    ELSE IF HasSubstring(d.decision, "DON'T SHIP")
    THEN (IF d.confidence = "MEDIUM" THEN "warning" ELSE "error")
    ELSE "warning"

ShowOverviewPage ==
    /\ saved.written
    /\ ret' = [fn |-> "show_overview_page", value |-> show_overview_page(saved.decision)]
    /\ UNCHANGED <<df, results, decision, saved, guardrail_metrics, raised, args>>

ShowDecisionPage ==
    /\ saved.written
    /\ ret' = [fn |-> "show_decision_page", value |-> display_ship_decision(saved.decision)]
    /\ UNCHANGED <<df, results, decision, saved, guardrail_metrics, raised, args>>

NextDashboard ==
    \/ AnalyzeAllMetrics
    \/ MakeShipDecision
    \/ SaveResults
    \/ ShowOverviewPage
    \/ ShowDecisionPage

SpecDashboard == Init /\ [][NextDashboard]_vars

----------------------------------------------------------------------------
(* Properties of the ship decision (specification Spec)                     *)

DecisionMade == decision.decision # ""
Primary == DictGet(results, PRIMARY_METRIC)
Entries == {results[i] : i \in 1..Len(results)}
DegradedIds == {e.key : e \in {x \in Entries : ~x.value.is_primary /\ x.value.is_degraded}}
SeqToSet(s) == {s[i] : i \in 1..Len(s)}
PrimaryWins ==
    /\ Primary.is_significant
    /\ Primary.meets_threshold
    /\ Primary.relative_lift.n * Primary.relative_lift.d > 0
PrimaryLoses ==
    /\ Primary.is_significant
    /\ Primary.relative_lift.n * Primary.relative_lift.d < 0
Texts == {decision.reasoning[i].text : i \in 1..Len(decision.reasoning)}

\* C1: the verdict is SHIP exactly when the primary is significant, meets the
\* threshold and has a positive lift and no non-primary entry is degraded; a
\* SHIP verdict always carries confidence HIGH.
C1_ShipIff ==
    DecisionMade =>
        /\ decision.decision = "SHIP" <=> (PrimaryWins /\ DegradedIds = {})
        /\ decision.decision = "SHIP" => decision.confidence = "HIGH"

C1_Witness ==
    /\ DecisionMade
    /\ decision.decision = "SHIP"
    /\ PrimaryWins

\* C2: when the primary wins and at least one guardrail is degraded, the
\* verdict is DON'T SHIP with confidence MEDIUM and the reasoning names exactly
\* the degraded guardrails' ids.
C2_GuardrailBlocks ==
    (DecisionMade /\ PrimaryWins /\ DegradedIds # {}) =>
        /\ decision.decision = "DON'T SHIP"
        /\ decision.confidence = "MEDIUM"
        /\ \E i \in 1..Len(decision.reasoning) :
              /\ decision.reasoning[i].text = "BUT guardrail metric(s) degraded: {guardrails}"
              /\ SeqToSet(decision.reasoning[i].guardrails) = DegradedIds

C2_Witness ==
    /\ DecisionMade
    /\ PrimaryWins
    /\ Cardinality(DegradedIds) >= 2
    /\ decision.confidence = "MEDIUM"

\* C3: a significant negative primary lift gives DON'T SHIP with confidence
\* HIGH, whether or not the lift meets the threshold and whichever guardrails
\* are degraded.
C3_NegativeLift ==
    (DecisionMade /\ PrimaryLoses) =>
        /\ decision.decision = "DON'T SHIP"
        /\ decision.confidence = "HIGH"

C3_Witness ==
    /\ DecisionMade
    /\ PrimaryLoses
    /\ ~Primary.meets_threshold
    /\ DegradedIds # {}
    /\ decision.confidence = "HIGH"

\* C4: a report on none of the first three paths (primary not significant, or
\* significant with a non-negative lift below the threshold) gives DON'T SHIP
\* with confidence MEDIUM; the reasoning states the lift and the p-value and
\* holds the minimum-threshold note exactly when meets_threshold is false.
C4_Otherwise ==
    (DecisionMade /\ ~PrimaryWins /\ ~PrimaryLoses) =>
        /\ \/ ~Primary.is_significant
           \/ /\ Primary.is_significant
              /\ Primary.relative_lift.n >= 0
              /\ ~Primary.meets_threshold
        /\ decision.decision = "DON'T SHIP"
        /\ decision.confidence = "MEDIUM"
        /\ \E i \in 1..Len(decision.reasoning) :
              decision.reasoning[i].lift = FormatPct(Primary.relative_lift)
        /\ \E i \in 1..Len(decision.reasoning) :
              decision.reasoning[i].p_value = format_p_value(Primary.p_value)
        /\ ("Lift does not meet minimum threshold of 2.0%" \in Texts)
              <=> ~Primary.meets_threshold

C4_Witness ==
    /\ DecisionMade
    /\ ~Primary.is_significant
    /\ Primary.meets_threshold
    /\ Primary.relative_lift.n > 0
    /\ decision.confidence = "MEDIUM"
    /\ "Lift does not meet minimum threshold of 2.0%" \notin Texts

\* C5: the conditions of paths 1, 2 and 3 are pairwise disjoint, so the verdict
\* and confidence are the same in whatever order they are tested, and exactly
\* one of the four paths applies.
Orders == {<<1, 2, 3>>, <<1, 3, 2>>, <<2, 1, 3>>, <<2, 3, 1>>, <<3, 1, 2>>, <<3, 2, 1>>}
C5_PathsExclusive ==
    DecisionMade =>
        LET dg == DegradedGuardrails(results)
            holds == {k \in 1..3 : PathCond(k, Primary, dg)}
        IN  /\ Cardinality(holds) <= 1
            /\ \A order \in Orders :
                  /\ DecideInOrder(order, results).decision = decision.decision
                  /\ DecideInOrder(order, results).confidence = decision.confidence

C5_Witness ==
    /\ DecisionMade
    /\ PrimaryLoses
    /\ Primary.meets_threshold
    /\ DegradedIds # {}
    /\ decision.confidence = "HIGH"

----------------------------------------------------------------------------
(* Properties of analyze_metric (specification SpecMetric) and of the       *)
(* report (specification Spec)                                              *)

Analyzed == ret.fn = "analyze_metric"

\* C6: a guardrail's degradation direction follows the metric's
\* higher_is_worse flag, whatever the metric's name: upward beyond the
\* tolerance when the flag is set, downward beyond it otherwise, and only
\* when significant.
C6_DirectionFromFlag ==
    (Analyzed /\ ~args.is_primary) =>
        LET lift == ret.value.relative_lift
        IN  ret.value.is_degraded =
               IF args.higher_is_worse
               THEN lift.n * 100 > lift.d /\ ret.value.is_significant
               ELSE lift.n * 100 < -lift.d /\ ret.value.is_significant

\* C7: is_significant is p_value < 0.05 for the primary and p_value < 0.10 for
\* any other metric, strictly.
C7_SignificanceByRole ==
    Analyzed =>
        LET p == ret.value.p_value
        IN  ret.value.is_significant =
               /\ p.d > 0
               /\ IF args.is_primary THEN p.n * 100 < 5 * p.d ELSE p.n * 100 < 10 * p.d

C7_Witness ==
    /\ Analyzed
    /\ ~args.is_primary
    /\ ret.value.p_value = Rat(5, 100)
    /\ ret.value.is_significant

\* C8: meets_threshold is |relative_lift| >= 0.02 for every entry of the
\* report, and the decision is the same whatever a guardrail's
\* meets_threshold is.
FlipMeetsThreshold(res, i) ==
    [res EXCEPT ![i].value.meets_threshold = ~res[i].value.meets_threshold]
C9_PrimaryNeverDegraded ==
    results # EmptyDict =>
        /\ DictHas(results, PRIMARY_METRIC)
        /\ Primary.is_primary
        /\ \A e \in Entries : e.value.is_primary => ~e.value.is_degraded

C9_Witness ==
    /\ results # EmptyDict
    /\ Primary.is_significant
    /\ Primary.relative_lift.n * 100 < -Primary.relative_lift.d
    /\ ~Primary.is_degraded

----------------------------------------------------------------------------
(* Properties of perform_ttest (specification SpecTtest)                    *)

Tested == ret.fn = "perform_ttest"

\* C10: relative_lift is (variant_mean - control_mean) / control_mean when the
\* control mean is not 0, and exactly 0 (finite, not NaN) when it is 0,
\* whatever the variant's mean.
C10_RelativeLift ==
    Tested =>
        LET nc == Len(args.control)
            nv == Len(args.variant)
            sc == SumSeq(args.control)
            sv == SumSeq(args.variant)
            lift == ret.value.relative_lift
        IN  IF nc = 0 THEN IsNaN(lift)
            ELSE IF sc = 0 THEN lift.n = 0 /\ lift.d = 1
            ELSE IF nv = 0 THEN IsNaN(lift)
            ELSE /\ lift.d > 0
                 /\ lift.n * (sc * nv) = (sv * nc - sc * nv) * lift.d

C10_Witness ==
    /\ Tested
    /\ Len(args.control) = 2
    /\ args.control[1] # 0
    /\ SumSeq(args.control) = 0
    /\ SumSeq(args.variant) # 0
    /\ ret.value.relative_lift = Zero

\* The sign of variant_mean - control_mean of the samples under test
DiffSign ==
    SgnInt(SumSeq(args.variant) * Len(args.control)
           - SumSeq(args.control) * Len(args.variant))
BothMeansDefined == Len(args.control) > 0 /\ Len(args.variant) > 0

\* C11: with a control mean other than 0 (negative ones included), the sign of
\* relative_lift says which group's mean is larger: positive exactly when the
\* variant's is, negative exactly when the control's is.
C11_LiftSignMatchesDifference ==
    (Tested /\ BothMeansDefined /\ SumSeq(args.control) # 0) =>
        SgnInt(ret.value.relative_lift.n) = DiffSign

\* C11 as amended: the sign of relative_lift matches the sign of the difference
\* of the means for a positive control mean, and is its opposite for a
\* negative control mean.
C11_LiftSignByControlSign ==
    (Tested /\ BothMeansDefined /\ SumSeq(args.control) # 0) =>
        /\ ret.value.relative_lift.d > 0
        /\ SgnInt(ret.value.relative_lift.n) =
              IF SumSeq(args.control) > 0 THEN DiffSign ELSE -DiffSign

C11_Witness ==
    /\ Tested
    /\ BothMeansDefined
    /\ SumSeq(args.control) < 0
    /\ DiffSign = 1
    /\ ret.value.relative_lift.n < 0

\* C12: whenever cohens_d is defined (not NaN), its sign is the sign of
\* variant_mean - control_mean, and it is 0 exactly when the means are equal.
C12_CohensDSign ==
    (Tested /\ ~IsNaN(ret.value.cohens_d.sq)) =>
        /\ BothMeansDefined
        /\ ret.value.cohens_d.sign = DiffSign
        /\ (ret.value.cohens_d.sq.n = 0) <=> (DiffSign = 0)

C12_Witness ==
    /\ Tested
    /\ ~IsNaN(ret.value.cohens_d.sq)
    /\ SumSeq(args.control) < 0
    /\ DiffSign = 1
    /\ ret.value.cohens_d.sign = 1
    /\ ret.value.cohens_d.sq.n > 0

----------------------------------------------------------------------------
(* Degenerate samples (specification SpecShort)                             *)

ConfiguredColumns ==
    {PRIMARY_METRIC} \cup {MetricCol(guardrail_metrics[i]) : i \in 1..Len(guardrail_metrics)}
ShortSample ==
    \E c \in ConfiguredColumns \cap DOMAIN df :
        Len(df[c].control) < 2 \/ Len(df[c].variant) < 2

\* C13: when the control or the variant sample of a metric has fewer than two
\* observations the analysis fails: no entry is produced, no report is stored
\* and nothing is decided or saved.
C13_ShortSampleFails ==
    ShortSample =>
        /\ results = EmptyDict
        /\ ~DecisionMade
        /\ ~saved.written

\* C14: no NaN or infinite t_statistic, p_value or cohens_d reaches
\* make_ship_decision: when every sample has two observations or more, every
\* entry of a report a decision was computed from has the three finite (a
\* pooled standard deviation of zero makes the analysis fail instead).
C14_NoDegenerateStatistic ==
    (DecisionMade /\ ~ShortSample) =>
        \A e \in Entries :
            /\ IsFinite(e.value.t_statistic.sq)
            /\ IsFinite(e.value.p_value)
            /\ IsFinite(e.value.cohens_d.sq)

----------------------------------------------------------------------------
(* Report construction under every configuration (specification SpecConfig) *)

ConfiguredIds == {PRIMARY_METRIC} \cup SeqToSet(guardrail_metrics)
Reverse(s) == [i \in 1..Len(s) |-> s[Len(s) + 1 - i]]
RECURSIVE Distinct(_)
Distinct(s) ==
    IF s = <<>> THEN <<>>
    ELSE LET r == Distinct(SubSeq(s, 1, Len(s) - 1))
         IN  IF s[Len(s)] \in SeqToSet(r) THEN r ELSE Append(r, s[Len(s)])

\* C15: report construction is fail-fast: a call that raises leaves the stored
\* results, the decision and the saved document as they were, and the stored
\* results are never a report of only some of the configured metrics.
C15_FailFast ==
    [][/\ raised' = "KeyError" =>
             /\ results' = results
             /\ decision' = decision
             /\ saved' = saved
       /\ results' # EmptyDict =>
             SeqToSet(DictKeys(results')) =
                {PRIMARY_METRIC} \cup SeqToSet(guardrail_metrics')]_vars

C15_Witness ==
    /\ raised = "KeyError"
    /\ results = EmptyDict
    /\ Len(guardrail_metrics) >= 2
    /\ ~ColumnMissing(df, MetricCol(guardrail_metrics[1]))
    /\ ColumnMissing(df, MetricCol(guardrail_metrics[2]))

\* C16: every report holds exactly one entry with is_primary true, stored
\* under the primary metric's id, whatever the configured guardrail list is.
C16_ExactlyOnePrimary ==
    results # EmptyDict =>
        /\ Cardinality({i \in 1..Len(results) : results[i].value.is_primary}) = 1
        /\ DictHas(results, PRIMARY_METRIC)
        /\ Primary.is_primary

\* C17: the keys of a report, in iteration order, are the primary's id and
\* then the configured guardrail ids in the order of the configured list (an
\* id named again keeps its first place); the first entry is the one
\* evaluated as primary unless the list names the primary's id.
C17_PrimaryFirstConfiguredOrder ==
    results # EmptyDict =>
        /\ DictKeys(results) = Distinct(<<PRIMARY_METRIC>> \o guardrail_metrics)
        /\ PRIMARY_METRIC \notin SeqToSet(guardrail_metrics) =>
              results[1].value.is_primary

C17_Witness ==
    /\ results # EmptyDict
    /\ Len(guardrail_metrics) = 3
    /\ guardrail_metrics[1] = guardrail_metrics[3]
    /\ guardrail_metrics[1] # guardrail_metrics[2]
    /\ PRIMARY_METRIC \notin SeqToSet(guardrail_metrics)
    /\ Len(results) = 3

\* Reports that differ from the stored one in the guardrails' observations
\* and in the order the guardrails were configured in
AltGuardrailRows == [control : {Sample(100)},
                     variant : {Sample(m) : m \in {97, 98, 102, 103}},
                     p : {Rat(4, 100), Rat(7, 100), Rat(10, 100)}]
AltReports ==
    {analyze_all_metrics([c \in Columns |-> IF c = PRIMARY_METRIC THEN df[c] ELSE g], order) :
        g \in AltGuardrailRows, order \in {guardrail_metrics, Reverse(guardrail_metrics)}}
SamePrimary(r) == DictGet(r, PRIMARY_METRIC) = Primary

\* C19: two reports with the same primary entry and the same set of degraded
\* guardrail ids get the same verdict, confidence and reasoning, whatever the
\* guardrails' other fields are.
C19_DependsOnDegradedSet ==
    DecisionMade =>
        \A r \in AltReports :
            (SamePrimary(r) /\ SeqToSet(DegradedGuardrails(r)) = DegradedIds) =>
                /\ Decide(r).decision = decision.decision
                /\ Decide(r).confidence = decision.confidence
                /\ Decide(r).reasoning = decision.reasoning

\* C19 as amended: the same primary entry and the same set of degraded ids
\* give the same verdict and confidence; the reasoning is the same when the
\* degraded ids also come in the same order in the two reports.
C19_DependsOnDegradedList ==
    DecisionMade =>
        \A r \in AltReports :
            /\ (SamePrimary(r) /\ SeqToSet(DegradedGuardrails(r)) = DegradedIds) =>
                  /\ Decide(r).decision = decision.decision
                  /\ Decide(r).confidence = decision.confidence
            /\ (SamePrimary(r) /\ DegradedGuardrails(r) = DegradedGuardrails(results)) =>
                  Decide(r).reasoning = decision.reasoning

C19_Witness ==
    /\ DecisionMade
    /\ Cardinality(DegradedIds) >= 2
    /\ \E r \in AltReports :
          /\ r # results
          /\ SamePrimary(r)
          /\ DegradedGuardrails(r) = DegradedGuardrails(results)
          /\ \E i \in 1..Len(r) : r[i].value.p_value # results[i].value.p_value
          /\ Decide(r).reasoning = decision.reasoning

\* C20: whatever the order of the calls, a decision is only ever computed
\* from a report that holds the primary and every configured guardrail; when
\* the analysis fails no decision is computed and nothing is saved.
C20_DecisionFromCompleteReport ==
    /\ DecisionMade =>
          /\ SeqToSet(DictKeys(results)) = ConfiguredIds
          /\ decision = Decide(results)
    /\ saved.written => saved.decision = decision
    /\ AnalysisRaises(df, guardrail_metrics) => (~DecisionMade /\ ~saved.written)

C20_Witness ==
    /\ DecisionMade
    /\ ~saved.written
    /\ Len(guardrail_metrics) = 3
    /\ Len(results) = 4

----------------------------------------------------------------------------
(* Per-metric evaluations in any order (specification SpecOrder)            *)

Evaluated == {ret.value[i] : i \in 1..Len(ret.value)}

----------------------------------------------------------------------------
(* Frame of the decision and the saved document (specification Spec)        *)

\* C22: the decision step is pure and idempotent: a call of
\* make_ship_decision leaves the stored report as it was before the call, and
\* a call made after a decision returns that same decision.
C22_DecisionPure ==
    [][MakeShipDecision =>
          /\ results' = results
          /\ DecisionMade => decision' = decision]_vars

----------------------------------------------------------------------------
(* Formatting (specification SpecFormat)                                    *)

\* the decimal with `scale` units to one is a nearest one to x
Nearest(units, x, scale) ==
    LET diff == 2 * (AbsInt(x.n) * scale - units * x.d)
    IN  AbsInt(diff) <= x.d

----------------------------------------------------------------------------
(* Scenario A (specification SpecScenario)                                  *)

\* C24: for control = [10,12,11,13,12] and variant = [14,15,13,16,15] as the
\* primary, the entry has control_mean 11.6, variant_mean 14.6,
\* relative_lift 3/11.6, is_significant and meets_threshold true, and with no
\* guardrail degraded the decision is SHIP with confidence HIGH.
C24_ScenarioA ==
    /\ results # EmptyDict =>
          /\ Primary.control_mean.n * 10 = 116 * Primary.control_mean.d
          /\ Primary.variant_mean.n * 10 = 146 * Primary.variant_mean.d
          /\ Primary.relative_lift.n * 116 = 30 * Primary.relative_lift.d
          /\ Primary.relative_lift.d > 0
          /\ Primary.is_primary
          /\ Primary.is_significant
          /\ Primary.meets_threshold
    /\ (DecisionMade /\ DegradedIds = {}) =>
          /\ decision.decision = "SHIP"
          /\ decision.confidence = "HIGH"

C24_Witness ==
    /\ DecisionMade
    /\ df[PRIMARY_METRIC] = ScenarioRow
    /\ DegradedIds = {}
    /\ decision.decision = "SHIP"
    /\ decision.reasoning[1].lift = [kind |-> "fixed", neg |-> FALSE, units |-> 2586]

\* C25: the document written by save_results has a 'metrics' mapping that is
\* the report its 'decision' was derived from: never empty, holding the
\* primary's and every configured guardrail's entry.
C25_SavedMetricsAreTheReport ==
    saved.written =>
        /\ saved.metrics # EmptyDict
        /\ saved.metrics = results
        /\ SeqToSet(DictKeys(saved.metrics)) =
              {PRIMARY_METRIC} \cup SeqToSet(guardrail_metrics)
        /\ saved.decision = Decide(saved.metrics)

\* The place of a metric id in the report
Pos(k) == CHOOSE i \in 1..Len(results) : results[i].key = k

\* C26: on every path the decision's degraded_guardrails lists exactly the
\* ids of the non-primary entries with is_degraded true, each once and in
\* report order, and primary_metric_lift and primary_metric_pvalue are the
\* primary entry's relative_lift and p_value.
C26_DecisionFields ==
    DecisionMade =>
        LET dg == decision.degraded_guardrails
        IN  /\ SeqToSet(dg) = DegradedIds
            /\ Len(dg) = Cardinality(DegradedIds)
            /\ \A i, j \in 1..Len(dg) : i < j => Pos(dg[i]) < Pos(dg[j])
            /\ decision.primary_metric_lift = Primary.relative_lift
            /\ decision.primary_metric_pvalue = Primary.p_value

C26_Witness ==
    /\ DecisionMade
    /\ ~Primary.is_significant
    /\ "Insufficient evidence to conclude variant is better" \in Texts
    /\ decision.degraded_guardrails = <<"sessions_per_user", "retention_d1">>

\* C27: the reasoning never contradicts the primary result: it says the
\* lift is not statistically significant only when the primary's
\* is_significant is false, and says the primary shows significant positive
\* lift only when the primary is significant with a positive lift.
C27_ReasoningAgreesWithPrimary ==
    DecisionMade =>
        /\ "Primary metric lift ({lift}%) is not statistically significant" \in Texts
              => ~Primary.is_significant
        /\ "Primary metric (avg_session_duration) shows significant positive lift of {lift}%" \in Texts
              => /\ Primary.is_significant
                 /\ Primary.relative_lift.n * Primary.relative_lift.d > 0

----------------------------------------------------------------------------
(* The dashboard (specification SpecDashboard)                              *)

\* C28: the overview's decision preview renders a verdict with the style the
\* decision page renders it with: SHIP with the success style and DON'T SHIP
\* of confidence HIGH with the error style, so never both with the same one.
C28_PreviewAgreesWithDecisionPage ==
    ret.fn = "show_overview_page" =>
        /\ ret.value = display_ship_decision(saved.decision)
        /\ saved.decision.decision = "SHIP" => ret.value = "success"
        /\ (saved.decision.decision = "DON'T SHIP" /\ saved.decision.confidence = "HIGH")
              => ret.value = "error"

====
